---- MODULE Spec2Model ----
(***************************************************************************)
(* The realtime telemetry client of the machine-tool monitoring dashboard: *)
(* class WebSocketManager (connection lifecycle, reconnection back-off,    *)
(* subscription registry, message router and listeners) together with the  *)
(* browser objects it drives: the WebSocket objects it creates and the      *)
(* setTimeout callbacks it schedules; and the rolling buffers of class       *)
(* ChartManager (the realtime chart and the temperature-trend chart).        *)
(* The listeners that class IndustrialIoTApp registers with the client     *)
(* connect the two: they subscribe the machines the page has loaded and    *)
(* feed the realtime chart.                                                *)
(*                                                                         *)
(* Durations are kept in half-milliseconds so that 25312.5 ms is a whole   *)
(* number; Ms(x) converts milliseconds.                                    *)
(***************************************************************************)
EXTENDS Integers, Sequences, FiniteSets, TLC

\* ------------------------------------------------------------------ bounds
MaxSockets == 2      \* WebSocket objects that are alive at the same time
MaxTimers == 2       \* setTimeout callbacks pending at the same time
MaxSamples == 60     \* samples fed to the realtime chart since its set-up
MaxTrendSamples == 3 \* temperatures fed to a trend series since its set-up
MaxRegistrations == 3 \* listeners registered at the same time
MaxMessages == 3     \* machine_data messages the server sends to the page

\* ------------------------------------------------------- program constants
maxReconnectAttempts == 5
reconnectIntervalMs == 5000
maxIntervalMs == 30000
NormalClosure == 1000
maxDataPoints == 50
trendPoints == 24

Ms(x) == 2 * x
InitialInterval == Ms(reconnectIntervalMs)
MaxInterval == Ms(maxIntervalMs)

Sockets == 1..MaxSockets
\* The machine identifiers the callers subscribe to.
Machines == {"CNC001", "CNC002"}
Null == 0

\* Close codes a CloseEvent can carry: 1000 normal closure, 1005 no status
\* code in the Close frame ("no code"), 1006 abnormal closure.
CloseCodes == {NormalClosure, 1005, 1006}

VARIABLES
    ws,                 \* this.ws: the current socket, or Null
    isConnected,        \* this.isConnected
    reconnectAttempts,  \* this.reconnectAttempts
    reconnectInterval,  \* this.reconnectInterval (half-milliseconds)
    subscriptions,      \* this.subscriptions: a Set, in insertion order
    readyState,         \* readyState of every WebSocket object created
    timers,             \* delays of the pending setTimeout callbacks, oldest first
    sent,               \* frames put on the wire by the last step
    emitted,            \* events emitted by the last step
    urlRejected,        \* the browser rejects this page's endpoint URL:
                        \* new WebSocket(wsUrl) throws
    opened,             \* history: some socket has opened since construction
    staleTimers,        \* history: pending timers that were already pending at
                        \* the last disconnect() not followed by a caller's connect()
    gaveUp,             \* history: a close event made the client give up and
                        \* the caller has not called connect() since
    messageHandlers,    \* this.messageHandlers: event type -> listeners, in
                        \* the order of their registration
    calls,              \* listener invocations made by the last step
    returned,           \* what send() returned to the caller in the last step
    logged,             \* the frames onMessage gave up on in the last step
                        \* (console.error with event.data)
    uncaught,           \* an exception left the callback of the last step
    removed,            \* history: the (event type, listener) pairs a caller
                        \* has passed to off() since their last on()
    machines,           \* app.machines: the ids of the machines loaded, in
                        \* the order of their insertion
    realtimeChart,      \* this.realtimeChart is set
    xAxisData,          \* the time axis of the realtime chart (xAxis[0].data)
    seriesData,         \* the data of the five series of the realtime chart
    temperatureTrendChart,  \* this.temperatureTrendChart is set
    trendData,          \* the data of the series of the trend chart, by name
    lastAppend,         \* the arguments of the last call of
                        \* updateTemperatureTrendChart on the present chart
    reported            \* the fields the samples of this plant carry

vars == <<ws, isConnected, reconnectAttempts, reconnectInterval, subscriptions,
          readyState, timers, sent, emitted, urlRejected, opened,
          staleTimers, gaveUp, messageHandlers, calls, returned, logged,
          uncaught, removed, machines, realtimeChart, xAxisData, seriesData,
          temperatureTrendChart, trendData, lastAppend, reported>>

chartVars == <<realtimeChart, xAxisData, seriesData, temperatureTrendChart,
               trendData, lastAppend, reported>>

managerVars == <<ws, isConnected, reconnectAttempts, reconnectInterval,
                 subscriptions, readyState, timers, sent, emitted, urlRejected,
                 opened, staleTimers, gaveUp, messageHandlers, calls, returned,
                 logged, uncaught, removed, machines>>

\* The program state as one record, so that a handler is a function on it.
Self ==
    [ws |-> ws, isConnected |-> isConnected,
     reconnectAttempts |-> reconnectAttempts,
     reconnectInterval |-> reconnectInterval,
     subscriptions |-> subscriptions, readyState |-> readyState,
     timers |-> timers, messageHandlers |-> messageHandlers,
     sent |-> <<>>, emitted |-> <<>>, calls |-> <<>>,
     returned |-> "none", logged |-> <<>>, thrown |-> FALSE,
     removed |-> removed, machines |-> machines,
     realtimeChart |-> realtimeChart, xAxisData |-> xAxisData,
     seriesData |-> seriesData]

\* A closed socket that this.ws no longer refers to is unreachable: it delivers
\* no further event and no code can use it, so its slot is free again.
Collected(st) ==
    [s \in Sockets |->
        IF st.readyState[s] = "closed" /\ s # st.ws THEN "none" ELSE st.readyState[s]]

\* The code tells one WebSocket object from another only through this.ws, so
\* the objects are kept in one fixed order: by readyState, the object this.ws
\* refers to first among those with the same readyState.
Rank(state) ==
    CASE state = "open" -> 1
      [] state = "connecting" -> 2
      [] state = "closing" -> 3
      [] state = "closed" -> 4
      [] OTHER -> 5

Key(cur, rs) ==
    [s \in Sockets |-> 2 * Rank(rs[s]) + (IF s = cur THEN 0 ELSE 1)]

\* The place of every object in that order.
Renaming(key) ==
    [s \in Sockets |->
        1 + Cardinality({t \in Sockets :
                key[t] < key[s] \/ (key[t] = key[s] /\ t < s)})]

Commit(st) ==
    \E r \in {st} :
    \E rs \in {Collected(r)} :
    \E key \in {Key(r.ws, rs)} :
    \E p \in {Renaming(key)} :
        /\ ws' = IF r.ws = Null THEN Null ELSE p[r.ws]
        /\ isConnected' = r.isConnected
        /\ reconnectAttempts' = r.reconnectAttempts
        /\ reconnectInterval' = r.reconnectInterval
        /\ subscriptions' = r.subscriptions
        /\ readyState' = [n \in Sockets |-> rs[CHOOSE s \in Sockets : p[s] = n]]
        /\ timers' = r.timers
        /\ sent' = [i \in 1..Len(r.sent) |-> [r.sent[i] EXCEPT !.sock = p[@]]]
        /\ emitted' = r.emitted
        /\ messageHandlers' = r.messageHandlers
        /\ calls' = r.calls
        /\ returned' = r.returned
        /\ logged' = r.logged
        /\ uncaught' = r.thrown
        /\ removed' = r.removed
        /\ machines' = r.machines
        /\ xAxisData' = r.xAxisData
        /\ seriesData' = r.seriesData
        /\ UNCHANGED <<realtimeChart, temperatureTrendChart, trendData,
                       lastAppend, reported>>

\* ------------------------------------------------------------- helpers
Contains(seq, x) == \E i \in 1..Len(seq) : seq[i] = x

Remove(seq, x) == SelectSeq(seq, LAMBDA y : y # x)

\* indexOf and splice(index, 1): the first occurrence goes, if there is one.
RemoveFirst(seq, x) ==
    IF ~Contains(seq, x)
    THEN seq
    ELSE LET index == CHOOSE i \in 1..Len(seq) :
                          seq[i] = x /\ \A j \in 1..(i - 1) : seq[j] # x
         IN SubSeq(seq, 1, index - 1) \o SubSeq(seq, index + 1, Len(seq))

\* Set.prototype.add: an element already present keeps its place.
SetAdd(seq, x) == IF Contains(seq, x) THEN seq ELSE Append(seq, x)

\* -------------------------------------------------- WebSocketManager
\* The listeners are the callers' code.  One kind returns normally and one
\* kind throws.
Handlers == {"logger", "faulty"}

Throws(handler) == handler = "faulty"

\* A third kind unregisters itself, with off(eventType, itself), when it is
\* invoked.
ListenerKinds == Handlers \cup {"once"}

RemovesItself(handler) == handler = "once"

\* The data of an event: none (undefined), a CloseEvent, or a parsed message.
NoData == [undefined |-> TRUE]

CloseEvent(code) == [code |-> code]

CodeOf(data) == IF "code" \in DOMAIN data THEN data.code ELSE Null

\* this.messageHandlers.get(eventType), empty when the Map has no such key.
HandlersOf(st, eventType) ==
    IF eventType \in DOMAIN st.messageHandlers
    THEN st.messageHandlers[eventType]
    ELSE <<>>

\* The listeners that the page's application registers, named after the
\* methods they call; the two that act on this state are defined with the
\* application below.
AppListeners == {"handleMachineDataUpdate", "handleAlarmEvent",
                 "handleStatusChange", "onWebSocketConnected",
                 "onWebSocketDisconnected"}

RECURSIVE HandleMachineDataUpdate(_, _)
RECURSIVE OnWebSocketConnected(_)

\* off(eventType, handler)
OffCode(st, eventType, handler) ==
    IF eventType \in DOMAIN st.messageHandlers
    THEN [st EXCEPT !.messageHandlers[eventType] = RemoveFirst(@, handler)]
    ELSE st

\* handler(data): the invocation is recorded; a faulty listener throws and a
\* listener of the third kind calls off() on itself.
Invoke(st, eventType, data, handler) ==
    LET st1 == [st EXCEPT !.calls = Append(@, [handler |-> handler,
                                               event |-> eventType,
                                               data |-> data]),
                          !.thrown = Throws(handler)]
    IN CASE RemovesItself(handler) -> OffCode(st1, eventType, handler)
         [] handler = "handleMachineDataUpdate" ->
                HandleMachineDataUpdate(st1, data)
         [] handler = "onWebSocketConnected" -> OnWebSocketConnected(st1)
         [] OTHER -> st1

\* handlers.forEach without the try/catch around handler(data): the first
\* exception ends the loop and leaves emit.
RECURSIVE EmitUnprotectedFrom(_, _, _, _)
EmitUnprotectedFrom(st, eventType, data, i) ==
    IF st.thrown \/ i > Len(HandlersOf(st, eventType))
    THEN st
    ELSE EmitUnprotectedFrom(
             Invoke(st, eventType, data, HandlersOf(st, eventType)[i]),
             eventType, data, i + 1)

\* handlers.forEach in the reverse of the registration order.
RECURSIVE EmitBackwardsFrom(_, _, _, _)
EmitBackwardsFrom(st, eventType, data, i) ==
    IF i > Len(HandlersOf(st, eventType))
    THEN st
    ELSE EmitBackwardsFrom(
             [Invoke(st, eventType, data,
                     HandlersOf(st, eventType)[Len(HandlersOf(st, eventType)) + 1 - i])
                 EXCEPT !.thrown = FALSE],
             eventType, data, i + 1)

\* handlers.forEach(handler => { try { handler(data) } catch { log } })
RECURSIVE EmitFrom(_, _, _, _)
EmitFrom(st, eventType, data, i) ==
    IF i > Len(HandlersOf(st, eventType))
    THEN st
    ELSE EmitFrom(
             [Invoke(st, eventType, data, HandlersOf(st, eventType)[i])
                 EXCEPT !.thrown = FALSE],
             eventType, data, i + 1)

\* emit(eventType, data).  The event and the close code its data carries (0
\* when there is none) are recorded as well.
Emit(st, eventType, data) ==
    IF st.thrown
    THEN st
    ELSE EmitFrom([st EXCEPT !.emitted =
                       Append(@, [type |-> eventType, code |-> CodeOf(data)])],
                  eventType, data, 1)

\* A back-off that doubles the delay instead of multiplying it by 1.5.
NextIntervalDoubling(i) ==
    IF 2 * i >= MaxInterval THEN MaxInterval ELSE 2 * i

\* Math.min(this.reconnectInterval * 1.5, 30000)
NextInterval(i) ==
    IF 3 * i >= 2 * MaxInterval THEN MaxInterval ELSE (3 * i) \div 2

ScheduleReconnect(st) ==
    IF st.reconnectAttempts < maxReconnectAttempts
    THEN [st EXCEPT !.reconnectAttempts = @ + 1,
                    !.timers = Append(@, st.reconnectInterval),
                    !.reconnectInterval = NextInterval(@)]
    ELSE Emit(st, "max_reconnect_attempts_reached", NoData)

\* new WebSocket(url): the lowest free object slot.
NewSocket(st) ==
    CHOOSE s \in Sockets :
        /\ st.readyState[s] \in {"none", "closed"}
        /\ \A t \in Sockets : st.readyState[t] \in {"none", "closed"} => s <= t

ConnectCode(st, throws) ==
    IF ~throws
    THEN LET s == NewSocket(st) IN
         [st EXCEPT !.ws = s, !.readyState[s] = "connecting"]
    ELSE ScheduleReconnect(st)

\* WebSocket.close(): a socket that is connecting or open starts closing.
SocketClose(st, s) ==
    IF st.readyState[s] \in {"connecting", "open"}
    THEN [st EXCEPT !.readyState[s] = "closing"]
    ELSE st

DisconnectCode(st) ==
    LET st1 == IF st.ws # Null
               THEN [SocketClose(st, st.ws) EXCEPT !.ws = Null]
               ELSE st
    IN [st1 EXCEPT !.isConnected = FALSE]

\* A send that tests this.ws alone and not this.isConnected.
SendUnguarded(st, message) ==
    IF st.ws # Null
    THEN CASE st.readyState[st.ws] = "connecting" -> [st |-> st, ok |-> FALSE]
           [] st.readyState[st.ws] = "open" ->
                [st |-> [st EXCEPT !.sent =
                            Append(@, [sock |-> st.ws, type |-> message.type,
                                       machine_id |-> message.machine_id])],
                 ok |-> TRUE]
           [] OTHER -> [st |-> st, ok |-> TRUE]
    ELSE [st |-> st, ok |-> FALSE]

\* send(message): the result and the state after it.  WebSocket.send throws
\* on a socket that is still connecting and silently discards the data on a
\* socket that is closing or closed.
Send(st, message) ==
    IF st.isConnected /\ st.ws # Null
    THEN CASE st.readyState[st.ws] = "connecting" -> [st |-> st, ok |-> FALSE]
           [] st.readyState[st.ws] = "open" ->
                [st |-> [st EXCEPT !.sent =
                            Append(@, [sock |-> st.ws, type |-> message.type,
                                       machine_id |-> message.machine_id])],
                 ok |-> TRUE]
           [] OTHER -> [st |-> st, ok |-> TRUE]
    ELSE [st |-> st, ok |-> FALSE]

SubscribeCode(st, machineId) ==
    LET r == Send(st, [type |-> "subscribe", machine_id |-> machineId]) IN
    IF r.ok
    THEN [st |-> [r.st EXCEPT !.subscriptions = SetAdd(@, machineId)], ok |-> TRUE]
    ELSE [st |-> r.st, ok |-> FALSE]

UnsubscribeCode(st, machineId) ==
    LET r == Send(st, [type |-> "unsubscribe", machine_id |-> machineId]) IN
    IF r.ok
    THEN [st |-> [r.st EXCEPT !.subscriptions = Remove(@, machineId)], ok |-> TRUE]
    ELSE [st |-> r.st, ok |-> FALSE]

RECURSIVE ResubscribeFrom(_, _)
ResubscribeFrom(st, i) ==
    IF i > Len(st.subscriptions)
    THEN st
    ELSE ResubscribeFrom(SubscribeCode(st, st.subscriptions[i]).st, i + 1)

\* A re-assertion that leaves out the oldest topic of the registry.
ResubscribeSkippingFirst(st) == ResubscribeFrom(st, 2)

Resubscribe(st) == ResubscribeFrom(st, 1)

OnOpenCode(st) ==
    LET st1 == [st EXCEPT !.isConnected = TRUE, !.reconnectAttempts = 0]
    IN Emit(Resubscribe(st1), "connected", NoData)

\* A test that takes only an abnormal closure (1006) for an unexpected one.
IsAbnormalOnly(code) == code = 1006

\* event.code !== 1000
IsUnexpected(code) == code # NormalClosure

\* A close handler that forgets the topics along with the connection.
OnCloseForgetting(st, code) ==
    LET st1 == [st EXCEPT !.isConnected = FALSE, !.subscriptions = <<>>]
        st2 == Emit(st1, "disconnected", CloseEvent(code))
    IN IF ~st2.thrown /\ IsUnexpected(code) THEN ScheduleReconnect(st2) ELSE st2

OnCloseCode(st, code) ==
    LET st1 == [st EXCEPT !.isConnected = FALSE]
        st2 == Emit(st1, "disconnected", CloseEvent(code))
    IN IF ~st2.thrown /\ IsUnexpected(code) THEN ScheduleReconnect(st2) ELSE st2

\* ---------------------------------------------------- message router
\* A field that a JavaScript object does not have.
Undefined == "undefined"

\* The message types with a handler that logs and emits the type: welcome,
\* status_change, control_response and the like.
PlainTypes == {"welcome", "machine_data", "status_change", "control_response",
               "system_notification", "maintenance_alert", "performance_report",
               "subscription_confirmed", "unsubscription_confirmed"}

\* The types of the messages the server sends in this model: one with a plain
\* handler, the two with a handler of their own, and one that handleMessage
\* does not know.
InboundTypes == {"welcome", "alarm", "ping", "telemetry_v2"}

\* A parsed message: its type and its alarm field (the alarm's level stands
\* for the alarm object).
Messages ==
    [type : InboundTypes \ {"alarm"}, alarm : {Undefined}]
        \cup [type : {"alarm"}, alarm : {Undefined, "critical"}]

\* The text frames the server sends: the JSON text of a message, or text that
\* is not JSON.
Frames ==
    [json : {TRUE}, body : Messages]
        \cup [json : {FALSE}, body : {[type |-> Undefined, alarm |-> Undefined]}]

\* JSON.parse(event.data): the message, or a SyntaxError.
JsonParse(frame) ==
    IF frame.json
    THEN [ok |-> TRUE, value |-> frame.body]
    ELSE [ok |-> FALSE, value |-> frame.body]

\* A throw statement, or an expression that raises a TypeError.
Throw(st) == [st EXCEPT !.thrown = TRUE]

\* handleAlarmMessage: alarm.level is read before playAlarmSound is entered,
\* outside its try/catch, and raises a TypeError when message.alarm is missing.
HandleAlarmMessage(st, message) ==
    IF message.alarm = Undefined
    THEN Throw(st)
    ELSE Emit(st, "alarm", message)

\* A heartbeat handler that does not answer.
HandlePingSilently(st, message) == st

HandlePingMessage(st, message) ==
    Send(st, [type |-> "pong", machine_id |-> Undefined]).st

HandleErrorMessage(st, message) == Emit(st, "server_error", message)

\* The switch of handleMessage.
HandleByType(st, message) ==
    CASE message.type \in PlainTypes -> Emit(st, message.type, message)
      [] message.type = "alarm" -> HandleAlarmMessage(st, message)
      [] message.type = "ping" -> HandlePingMessage(st, message)
      [] message.type = "error" -> HandleErrorMessage(st, message)
      [] OTHER -> st

HandleMessage(st, message) ==
    Emit(Emit(HandleByType(st, message), "message", message),
         message.type, message)

\* An onMessage that lets the SyntaxError of JSON.parse out.
OnMessageUnprotected(st, frame) ==
    LET parsed == JsonParse(frame) IN
    IF parsed.ok THEN HandleMessage(st, parsed.value) ELSE Throw(st)

\* The catch block of onMessage: console.error(..., error, event.data).
LogFailure(st, frame) ==
    [st EXCEPT !.thrown = FALSE, !.logged = Append(@, frame)]

\* onMessage(event): whatever is thrown while parsing or handling is caught
\* and logged.
OnMessageCode(st, frame) ==
    LET parsed == JsonParse(frame)
        st1 == IF parsed.ok THEN HandleMessage(st, parsed.value) ELSE Throw(st)
    IN IF st1.thrown THEN LogFailure(st1, frame) ELSE st1

\* on(eventType, handler)
OnCode(st, eventType, handler) ==
    [st EXCEPT !.messageHandlers =
        [e \in DOMAIN @ \cup {eventType} |->
            IF e = eventType
            THEN Append(HandlersOf(st, eventType), handler)
            ELSE @[e]]]

\* ------------------------------------------------------- ChartManager
\* The fields behind the five series of the realtime chart, in the order of
\* option.series.
SeriesFields == <<"temperature", "vibration", "current", "speed", "pressure">>

\* The series of the temperature-trend chart.
TrendNames == {"CNC001", "MILL001", "DRILL001"}

\* A plant reports all five fields in every sample, or only the first two.
FieldSets == {{SeriesFields[i] : i \in 1..5}, {SeriesFields[i] : i \in 1..2}}

\* generateRandomData(count, min, max): count generated points, told from
\* the measured ones by their sign.
GenerateRandomData(count) == [i \in 1..count |-> i - count - 1]

\* data.field || 0
OrZero(data, field) ==
    IF field \in DOMAIN data /\ data[field] # 0 THEN data[field] ELSE 0

\* new Date(data.timestamp).toISOString()
ToISOString(timestamp) == [iso |-> timestamp]

\* A buffer that evicts only once it is over its capacity.
PushLate(buffer, value, capacity) ==
    IF Len(buffer) > capacity
    THEN Append(Tail(buffer), value)
    ELSE Append(buffer, value)

\* A buffer that evicts its newest entry instead of its oldest.
PushEvictingNewest(buffer, value, capacity) ==
    IF Len(buffer) >= capacity
    THEN Append(SubSeq(buffer, 1, Len(buffer) - 1), value)
    ELSE Append(buffer, value)

\* if (data.length >= capacity) data.shift(); data.push(value)
Push(buffer, value, capacity) ==
    IF Len(buffer) >= capacity
    THEN Append(Tail(buffer), value)
    ELSE Append(buffer, value)

\* ---------------------------------------------------- IndustrialIoTApp
\* chartManager.updateRealtimeChart(machineId, data) on the state record.
UpdateRealtimeChartCode(st, machineId, data) ==
    IF ~st.realtimeChart
    THEN st
    ELSE IF "timestamp" \notin DOMAIN data
         THEN Throw(st)
         ELSE [st EXCEPT
                  !.xAxisData = Push(@, ToISOString(data.timestamp),
                                     maxDataPoints),
                  !.seriesData =
                      [i \in DOMAIN @ |->
                          Push(@[i], OrZero(data, SeriesFields[i]),
                               maxDataPoints)]]

\* handleMachineDataUpdate(message): updateMachineData changes what the page
\* displays; window.chartManager exists and takes the sample.
HandleMachineDataUpdate(st, message) ==
    UpdateRealtimeChartCode(st, message.machine_id, message.data)

\* onWebSocketConnected(): this.machines.forEach(... subscribe(machineId))
RECURSIVE SubscribeMachinesFrom(_, _)
SubscribeMachinesFrom(st, i) ==
    IF i > Len(st.machines)
    THEN st
    ELSE SubscribeMachinesFrom(SubscribeCode(st, st.machines[i]).st, i + 1)

OnWebSocketConnected(st) == SubscribeMachinesFrom(st, 1)

\* setupWebSocketHandlers()
SetupWebSocketHandlers(st) ==
    OnCode(OnCode(OnCode(OnCode(OnCode(st,
        "machine_data", "handleMachineDataUpdate"),
        "alarm", "handleAlarmEvent"),
        "status_change", "handleStatusChange"),
        "connected", "onWebSocketConnected"),
        "disconnected", "onWebSocketDisconnected")

\* The machine lists that GET /machines answers with.
MachineLists == {<<"CNC001">>, <<"CNC001", "CNC002">>}

\* data.machines.forEach(machine => this.machines.set(machine.machine_id, ...))
RECURSIVE SetMachinesFrom(_, _, _)
SetMachinesFrom(st, list, i) ==
    IF i > Len(list)
    THEN st
    ELSE SetMachinesFrom([st EXCEPT !.machines = SetAdd(@, list[i])], list, i + 1)

LoadMachinesCode(st, list) == SetMachinesFrom(st, list, 1)

\* A machine_data message for machineId that carries sample n.
MachineDataFrame(machineId, n) ==
    [json |-> TRUE,
     body |-> [type |-> "machine_data", alarm |-> Undefined,
               machine_id |-> machineId,
               data |-> [f \in {"timestamp"} \cup {SeriesFields[i] : i \in 1..5} |-> n]]]

\* ------------------------------------------------------------ actions
HasFreeSocket == \E s \in Sockets : readyState[s] \in {"none", "closed"}

\* The model keeps at most MaxTimers callbacks pending.
Bounded(st) == Len(st.timers) <= MaxTimers

GaveUpIn(st) ==
    \E i \in 1..Len(st.emitted) :
        st.emitted[i].type = "max_reconnect_attempts_reached"

\* connect() called by the page (DOMContentLoaded) or by any other caller.
Connect ==
    /\ urlRejected \/ HasFreeSocket
    /\ \E st \in {ConnectCode(Self, urlRejected)} :
          /\ Bounded(st)
          /\ Commit(st)
          /\ staleTimers' = 0
          /\ gaveUp' = FALSE
          /\ UNCHANGED <<opened, urlRejected>>

\* The setTimeout callback of scheduleReconnect: this.connect().  The delay
\* never shrinks from one call of scheduleReconnect to the next, so the
\* callbacks run in the order in which they were scheduled.
TimerFire ==
    /\ timers # <<>>
    /\ urlRejected \/ HasFreeSocket
    /\ \E st \in {ConnectCode([Self EXCEPT !.timers = Tail(@)], urlRejected)} :
          /\ Bounded(st)
          /\ Commit(st)
          /\ staleTimers' = IF staleTimers > 0 THEN staleTimers - 1 ELSE 0
          /\ UNCHANGED <<opened, gaveUp, urlRejected>>

Disconnect ==
    /\ Commit(DisconnectCode(Self))
    /\ staleTimers' = Len(timers)
    /\ UNCHANGED <<opened, gaveUp, urlRejected>>

\* The open event of socket s.
OnOpen(s) ==
    /\ readyState[s] = "connecting"
    /\ Commit(OnOpenCode([Self EXCEPT !.readyState[s] = "open"]))
    /\ opened' = TRUE
    /\ UNCHANGED <<staleTimers, gaveUp, urlRejected>>

\* The close event of socket s.  A handshake that never completed fails
\* with 1006; an established or closing connection ends with any code.
OnClose(s, code) ==
    /\ readyState[s] \in {"connecting", "open", "closing"}
    /\ readyState[s] = "connecting" => code = 1006
    /\ \E st \in {OnCloseCode([Self EXCEPT !.readyState[s] = "closed"], code)} :
          /\ Bounded(st)
          /\ Commit(st)
          /\ gaveUp' = (gaveUp \/ GaveUpIn(st))
          /\ UNCHANGED <<opened, staleTimers, urlRejected>>

Subscribe(machineId) ==
    /\ Commit(SubscribeCode(Self, machineId).st)
    /\ UNCHANGED <<opened, staleTimers, gaveUp, urlRejected>>

Unsubscribe(machineId) ==
    /\ Commit(UnsubscribeCode(Self, machineId).st)
    /\ UNCHANGED <<opened, staleTimers, gaveUp, urlRejected>>

\* The event types the callers listen to: the wildcard channel, a type with
\* a handler of its own, a type that handleMessage does not know and an event
\* of the connection.
EventNames == {"message", "alarm", "telemetry_v2", "disconnected"}

\* The messages the callers send with send().
Outbound == {[type |-> "control", machine_id |-> "CNC001"]}

IsRegistered(handler) ==
    \E e \in DOMAIN messageHandlers : Contains(messageHandlers[e], handler)

\* on(eventType, handler) called by the page, which registers each of its
\* listeners once.
On(eventType, handler) ==
    /\ ~IsRegistered(handler)
    /\ Commit(OnCode(Self, eventType, handler))
    /\ UNCHANGED <<opened, staleTimers, gaveUp, urlRejected>>

\* The number of listeners in this.messageHandlers.
Registrations ==
    Cardinality(UNION {{<<e, i>> : i \in 1..Len(messageHandlers[e])} :
                          e \in DOMAIN messageHandlers})

\* on(eventType, handler) called by any caller, also for a listener that is
\* registered already.
OnAny(eventType, handler) ==
    /\ Registrations < MaxRegistrations
    /\ Commit([OnCode(Self, eventType, handler)
                  EXCEPT !.removed = @ \ {<<eventType, handler>>}])
    /\ UNCHANGED <<opened, staleTimers, gaveUp, urlRejected>>

\* off(eventType, handler) called by any caller.
Off(eventType, handler) ==
    /\ Commit([OffCode(Self, eventType, handler)
                  EXCEPT !.removed = @ \cup {<<eventType, handler>>}])
    /\ UNCHANGED <<opened, staleTimers, gaveUp, urlRejected>>

\* The events that listeners are registered for and removed from at any
\* time: an event of the connection and the wildcard channel.
ListenerEvents == {"connected", "message"}

\* Messages whose type the server chooses freely: a type with a handler and
\* two types that are also names of the client's own events.
ListenerFrames ==
    [json : {TRUE},
     body : [type : {"welcome", "connected", "message"}, alarm : {Undefined}]]

\* setupApp(), the application's part of DOMContentLoaded, as far as the
\* client is concerned: it registers the application's listeners and starts
\* loadInitialData(), whose answers arrive later.
SetupApp ==
    /\ messageHandlers = <<>>
    /\ Commit(SetupWebSocketHandlers(Self))
    /\ UNCHANGED <<opened, staleTimers, gaveUp, urlRejected>>

\* loadMachines() after its fetch has been answered with list: on page load
\* and on every refreshMachines().
LoadMachines(list) ==
    /\ messageHandlers # <<>>
    /\ Commit(LoadMachinesCode(Self, list))
    /\ UNCHANGED <<opened, staleTimers, gaveUp, urlRejected>>

\* The message event of socket s: the user agent delivers a frame only while
\* the socket is open.
OnMessage(s, frame) ==
    /\ readyState[s] = "open"
    /\ Commit(OnMessageCode(Self, frame))
    /\ UNCHANGED <<opened, staleTimers, gaveUp, urlRejected>>

\* send(message) called by the page.
SendMessage(message) ==
    /\ \E r \in {Send(Self, message)} :
          Commit([r.st EXCEPT !.returned = IF r.ok THEN "true" ELSE "false"])
    /\ UNCHANGED <<opened, staleTimers, gaveUp, urlRejected>>

\* No call of updateTemperatureTrendChart yet.
NoAppend == [series |-> Undefined, value |-> 0]

\* setupCharts(): every chart whose container the page has is created with
\* its initial option; a chart without container is left as it is.
SetupCharts(hasRealtime, hasTrend) ==
    /\ IF hasRealtime
       THEN /\ realtimeChart' = TRUE
            /\ xAxisData' = <<>>
            /\ seriesData' = [i \in 1..Len(SeriesFields) |-> <<>>]
       ELSE UNCHANGED <<realtimeChart, xAxisData, seriesData>>
    /\ IF hasTrend
       THEN /\ temperatureTrendChart' = TRUE
            /\ trendData' = [n \in TrendNames |-> GenerateRandomData(trendPoints)]
            /\ lastAppend' = NoAppend
       ELSE UNCHANGED <<temperatureTrendChart, trendData, lastAppend>>
    /\ UNCHANGED <<reported, managerVars>>

\* The samples are numbered as they arrive; sample n carries n as its
\* timestamp and in every field that the plant reports.
Sample(n) == [f \in reported \cup {"timestamp"} |-> n]

\* A sample that lacks its timestamp.
WithoutTimestamp(n) == [f \in reported |-> n]

NextSample == IF xAxisData = <<>> THEN 1 ELSE xAxisData[Len(xAxisData)].iso + 1

\* An update that appends to a series only when the sample carries its field.
UpdateRealtimeChartSkipping(machineId, data) ==
    /\ IF realtimeChart /\ "timestamp" \in DOMAIN data
       THEN /\ xAxisData' = Push(xAxisData, ToISOString(data.timestamp),
                                 maxDataPoints)
            /\ seriesData' =
                  [i \in DOMAIN seriesData |->
                      IF SeriesFields[i] \in DOMAIN data
                      THEN Push(seriesData[i], data[SeriesFields[i]],
                                maxDataPoints)
                      ELSE seriesData[i]]
       ELSE UNCHANGED <<xAxisData, seriesData>>
    /\ UNCHANGED <<realtimeChart, temperatureTrendChart, trendData, lastAppend,
                   reported, managerVars>>

\* updateRealtimeChart(machineId, data).  Without data.timestamp the Date is
\* invalid and toISOString throws a RangeError before anything is written.
UpdateRealtimeChart(machineId, data) ==
    /\ IF realtimeChart /\ "timestamp" \in DOMAIN data
       THEN /\ xAxisData' = Push(xAxisData, ToISOString(data.timestamp),
                                 maxDataPoints)
            /\ seriesData' =
                  [i \in DOMAIN seriesData |->
                      Push(seriesData[i], OrZero(data, SeriesFields[i]),
                           maxDataPoints)]
       ELSE UNCHANGED <<xAxisData, seriesData>>
    /\ UNCHANGED <<realtimeChart, temperatureTrendChart, trendData, lastAppend,
                   reported, managerVars>>

\* The temperatures of a series are numbered as they arrive.
NextTemperature(name) ==
    IF trendData[name][Len(trendData[name])] > 0
    THEN trendData[name][Len(trendData[name])] + 1
    ELSE 1

\* updateTemperatureTrendChart(machineId, temperature)
UpdateTemperatureTrendChart(machineId, temperature) ==
    /\ IF temperatureTrendChart /\ machineId \in DOMAIN trendData
       THEN trendData' =
                [trendData EXCEPT ![machineId] = Push(@, temperature, trendPoints)]
       ELSE UNCHANGED trendData
    /\ lastAppend' = IF temperatureTrendChart
                     THEN [series |-> machineId, value |-> temperature]
                     ELSE lastAppend
    /\ UNCHANGED <<realtimeChart, xAxisData, seriesData, temperatureTrendChart,
                   reported, managerVars>>

\* The manager after its constructor.
InitManager ==
    /\ ws = Null
    /\ isConnected = FALSE
    /\ reconnectAttempts = 0
    /\ reconnectInterval = InitialInterval
    /\ subscriptions = <<>>
    /\ readyState = [s \in Sockets |-> "none"]
    /\ timers = <<>>
    /\ sent = <<>>
    /\ emitted = <<>>
    /\ urlRejected \in BOOLEAN
    /\ opened = FALSE
    /\ staleTimers = 0
    /\ gaveUp = FALSE
    /\ messageHandlers = <<>>
    /\ calls = <<>>
    /\ returned = "none"
    /\ logged = <<>>
    /\ uncaught = FALSE
    /\ removed = {}
    /\ machines = <<>>

\* The chart manager after its constructor, before the page has loaded.
InitChartManager ==
    /\ realtimeChart = FALSE
    /\ xAxisData = <<>>
    /\ seriesData = <<>>
    /\ temperatureTrendChart = FALSE
    /\ trendData = <<>>
    /\ lastAppend = NoAppend

Init ==
    /\ InitManager
    /\ InitChartManager
    /\ reported = {SeriesFields[i] : i \in 1..5}

Next ==
    \/ Connect
    \/ TimerFire
    \/ Disconnect
    \/ \E s \in Sockets : OnOpen(s)
    \/ \E s \in Sockets, code \in CloseCodes : OnClose(s, code)
    \/ \E m \in Machines : Subscribe(m)
    \/ \E m \in Machines : Unsubscribe(m)

Spec == Init /\ [][Next]_vars

\* The router and its listeners.  A retry callback is the same connect() as
\* the caller's, and the registry of topics plays no part in routing.
NextRouter ==
    \/ Connect
    \/ Disconnect
    \/ \E s \in Sockets : OnOpen(s)
    \/ \E s \in Sockets, code \in CloseCodes : OnClose(s, code)
    \/ \E e \in EventNames, h \in Handlers : On(e, h)
    \/ \E s \in Sockets, frame \in Frames : OnMessage(s, frame)
    \/ \E message \in Outbound : SendMessage(message)

SpecRouter == Init /\ [][NextRouter]_vars

\* The charts, fed with the samples of a plant that reports one of FieldSets.
InitCharts ==
    /\ InitManager
    /\ InitChartManager
    /\ reported \in FieldSets

NextCharts ==
    \/ \E hasRealtime, hasTrend \in BOOLEAN : SetupCharts(hasRealtime, hasTrend)
    \/ \E m \in Machines, data \in {Sample(NextSample), WithoutTimestamp(NextSample)} :
          /\ NextSample <= MaxSamples
          /\ UpdateRealtimeChart(m, data)
    \/ \E m \in Machines :
          /\ m \in DOMAIN trendData => NextTemperature(m) <= MaxTrendSamples
          /\ UpdateTemperatureTrendChart(
                 m, IF m \in DOMAIN trendData THEN NextTemperature(m) ELSE 1)

SpecCharts == InitCharts /\ [][NextCharts]_vars

\* Registration and removal of listeners at any time, around one connection
\* that opens, receives messages and closes normally.
NextListeners ==
    \/ ws = Null /\ ~urlRejected /\ Connect
    \/ \E s \in Sockets : OnOpen(s)
    \/ \E s \in Sockets : OnClose(s, NormalClosure)
    \/ \E e \in ListenerEvents, h \in ListenerKinds : OnAny(e, h)
    \/ \E e \in ListenerEvents, h \in ListenerKinds : Off(e, h)
    \/ \E s \in Sockets, frame \in ListenerFrames : OnMessage(s, frame)

SpecListeners == Init /\ [][NextListeners]_vars

\* The page: the application, the chart manager and the client set
\* themselves up on DOMContentLoaded, before any event of the socket; then
\* the machine list is loaded, the socket opens, delivers machine data, is
\* lost and is opened again by the retry, in any order.
NextApp ==
    \/ ws = Null /\ SetupApp
    \/ \E hasRealtime \in BOOLEAN :
          ws = Null /\ ~temperatureTrendChart /\ SetupCharts(hasRealtime, TRUE)
    \/ /\ messageHandlers # <<>> /\ temperatureTrendChart
       /\ ws = Null /\ ~urlRejected
       /\ Connect
    \/ TimerFire
    \/ \E s \in Sockets : OnOpen(s)
    \/ \E s \in Sockets : OnClose(s, 1006)
    \/ \E list \in MachineLists : LoadMachines(list)
    \/ \E s \in Sockets, m \in Machines :
          /\ NextSample <= MaxMessages
          /\ OnMessage(s, MachineDataFrame(m, NextSample))

SpecApp == Init /\ [][NextApp]_vars

TypeOK ==
    /\ ws \in Sockets \cup {Null}
    /\ urlRejected \in BOOLEAN
    /\ isConnected \in BOOLEAN
    /\ reconnectAttempts \in 0..maxReconnectAttempts
    /\ reconnectInterval \in InitialInterval..MaxInterval
    /\ readyState \in [Sockets -> {"none", "connecting", "open", "closing", "closed"}]
    /\ Len(timers) <= MaxTimers

\* ------------------------------------------------------------ claims
Range(seq) == {seq[i] : i \in 1..Len(seq)}

SubscribeTopics(frames) ==
    {frames[i].machine_id : i \in {j \in 1..Len(frames) : frames[j].type = "subscribe"}}

Emitted(eventType) == \E i \in 1..Len(emitted) : emitted[i].type = eventType

LiveSockets == {s \in Sockets : readyState[s] \in {"connecting", "open"}}

\* C1: when the client's current socket opens, the re-assertion step sends one
\* subscribe frame for every topic of the registry and for nothing else, all
\* of them on the new connection, and leaves the registry as it was.
C1_ReassertsRegistry ==
    [][\A s \in Sockets :
          (ws = s /\ OnOpen(s)) =>
              /\ SubscribeTopics(sent') = Range(subscriptions)
              /\ Len(sent') = Len(subscriptions)
              /\ \A i \in 1..Len(sent') :
                    sent'[i].type = "subscribe" /\ sent'[i].sock = ws'
              /\ subscriptions' = subscriptions]_vars

\* The socket of a retry (the retry was scheduled and its timer has fired) has
\* just opened as the only connection and re-asserted a registry of two topics.
C1_Witness ==
    /\ Emitted("connected")
    /\ reconnectInterval > InitialInterval
    /\ timers = <<>>
    /\ LiveSockets = {ws}
    /\ readyState[ws] = "open"
    /\ Len(subscriptions) = 2
    /\ SubscribeTopics(sent) = Machines

\* C2 (as claimed): a reconnect timer that was pending when disconnect() was
\* called never runs its connect(), unless the caller has called connect()
\* in between.
C2_DisconnectCancelsTimer == [][~(staleTimers > 0 /\ TimerFire)]_vars

\* C3 (as claimed): the close event of a socket that disconnect() closed
\* schedules no retry, whatever close code it carries.
C3_DisconnectSuppressesRetry ==
    [][\A s \in Sockets, code \in CloseCodes :
          (readyState[s] = "closing" /\ OnClose(s, code)) =>
              /\ timers' = timers
              /\ reconnectAttempts' = reconnectAttempts]_vars

\* C4 (as claimed): every open event resets the attempt counter to 0 and the
\* reconnect delay to its initial value.
C4_OpenResetsBackoff ==
    [][\A s \in Sockets :
          OnOpen(s) =>
              /\ reconnectAttempts' = 0
              /\ reconnectInterval' = InitialInterval]_vars

\* The delays of the claim, 5000, 7500, 11250, 16875 and 25312.5 ms.
ExpectedDelays == <<Ms(5000), Ms(7500), Ms(11250), Ms(16875), Ms(25312) + 1>>

\* C5: as long as no socket has opened since the client was created, the k-th
\* retry is scheduled with the k-th delay of 5000, 7500, 11250, 16875,
\* 25312.5 ms, and there are at most 5 of them: the pending timers are the
\* latest of the first reconnectAttempts delays of that list.
C5_BackoffDelays ==
    ~opened =>
        /\ reconnectAttempts <= maxReconnectAttempts
        /\ Len(timers) <= reconnectAttempts
        /\ timers = SubSeq(ExpectedDelays,
                           reconnectAttempts - Len(timers) + 1, reconnectAttempts)

\* The fifth unexpected close in a row has just scheduled the fifth retry,
\* with 25312.5 ms.
C5_Witness ==
    /\ ~opened
    /\ ~urlRejected
    /\ Emitted("disconnected")
    /\ reconnectAttempts = maxReconnectAttempts
    /\ timers = <<Ms(25312) + 1>>

\* C6 (as claimed): an unexpected close at the attempt cap schedules no timer
\* and emits the give-up event, and once the client has given up no timer
\* fires and none is scheduled before the caller calls connect().
C6_GaveUpIsTerminal ==
    [][/\ \A s \in Sockets, code \in CloseCodes :
             (/\ OnClose(s, code)
              /\ code # NormalClosure
              /\ reconnectAttempts = maxReconnectAttempts) =>
                 timers' = timers /\ Emitted("max_reconnect_attempts_reached")'
       /\ gaveUp => (Connect \/ (~TimerFire /\ timers' = timers))]_vars

\* C7 (as claimed): a connect() called by the caller, opening a socket, resets
\* the attempt counter to 0.
C7_ConnectResetsAttempts ==
    [][(Connect /\ ~urlRejected) => reconnectAttempts' = 0]_vars

\* C8 (as claimed): at most one socket is connecting or open at any time.
C8_OneConnection == Cardinality(LiveSockets) <= 1

\* C9 (as claimed): at most one reconnect timer is pending at any time.
C9_OneTimer == Len(timers) <= 1

\* C10: a close event with code 1000 leaves the reconnection state alone; a
\* close event with any other code schedules a retry with the current delay
\* when fewer than maxReconnectAttempts attempts were made and emits the
\* give-up event otherwise.
C10_CloseCodePolicy ==
    [][\A s \in Sockets, code \in CloseCodes :
          OnClose(s, code) =>
              IF code = NormalClosure
              THEN /\ timers' = timers
                   /\ reconnectAttempts' = reconnectAttempts
                   /\ reconnectInterval' = reconnectInterval
                   /\ ~Emitted("max_reconnect_attempts_reached")'
              ELSE IF reconnectAttempts < maxReconnectAttempts
              THEN /\ timers' = Append(timers, reconnectInterval)
                   /\ reconnectAttempts' = reconnectAttempts + 1
                   /\ ~Emitted("max_reconnect_attempts_reached")'
              ELSE /\ timers' = timers
                   /\ reconnectAttempts' = reconnectAttempts
                   /\ Emitted("max_reconnect_attempts_reached")']_vars

\* A close event without a status code (1005) has scheduled a retry.
C10_Witness ==
    /\ Len(emitted) = 1
    /\ emitted[1].type = "disconnected"
    /\ emitted[1].code = 1005
    /\ timers # <<>>

\* The client is connected and its socket is open.
Connected == isConnected /\ ws # Null /\ readyState[ws] = "open"

\* C11 (as claimed): subscribe(topic) records the topic in the registry in
\* every connection state; when connected it sends exactly one subscribe
\* frame for it, when not connected it sends nothing and still records the
\* topic for the next connection.
C11_SubscribeAlwaysRecords ==
    [][\A m \in Machines :
          Subscribe(m) =>
              /\ Contains(subscriptions', m)
              /\ Connected =>
                    sent' = <<[sock |-> ws', type |-> "subscribe", machine_id |-> m]>>
              /\ ~isConnected => sent' = <<>>]_vars

\* C12 (as claimed): after unsubscribe(topic) the topic is not in the
\* registry, in every connection state; when connected exactly one
\* unsubscribe frame is sent, when not connected none.
C12_UnsubscribeAlwaysForgets ==
    [][\A m \in Machines :
          Unsubscribe(m) =>
              /\ ~Contains(subscriptions', m)
              /\ Connected =>
                    sent' = <<[sock |-> ws', type |-> "unsubscribe", machine_id |-> m]>>
              /\ ~isConnected => sent' = <<>>]_vars

\* C13: send(message) puts a frame on the wire only when the client is
\* connected; when it is not, send returns false, throws nothing, sends
\* nothing and leaves the connection state, the attempt counter, the retry
\* state and the registry as they were.
C13_SendOnlyWhenConnected ==
    [][\A message \in Outbound :
          SendMessage(message) =>
              /\ sent' # <<>> => isConnected
              /\ ~isConnected =>
                    /\ returned' = "false"
                    /\ ~uncaught'
                    /\ sent' = <<>>
                    /\ isConnected' = isConnected
                    /\ ws' = ws
                    /\ readyState' = readyState
                    /\ reconnectAttempts' = reconnectAttempts
                    /\ reconnectInterval' = reconnectInterval
                    /\ timers' = timers
                    /\ subscriptions' = subscriptions]_vars

\* send() has returned false to a caller while the client was not connected
\* although the socket this.ws refers to is open.
C13_Witness ==
    /\ returned = "false"
    /\ ~isConnected
    /\ ws # Null
    /\ readyState[ws] = "open"
    /\ sent = <<>>

\* The heartbeat of the server.
PingFrame == [json |-> TRUE, body |-> [type |-> "ping", alarm |-> Undefined]]

\* C14 (as claimed): the dispatch of a 'ping' message sends exactly one
\* 'pong' frame (the client being connected) and invokes no listener of the
\* wildcard 'message' channel.
C14_PingNotForwarded ==
    [][\A s \in Sockets :
          OnMessage(s, PingFrame) =>
              /\ Connected =>
                    sent' = <<[sock |-> ws', type |-> "pong", machine_id |-> Undefined]>>
              /\ \A i \in 1..Len(calls') : calls'[i].event # "message"]_vars

\* The listeners registered for eventType, in the order of registration.
Listeners(eventType) ==
    IF eventType \in DOMAIN messageHandlers
    THEN messageHandlers[eventType]
    ELSE <<>>

\* Listener handler was invoked for eventType with data in the last step.
Invoked(log, handler, eventType, data) ==
    \E i \in 1..Len(log) :
        /\ log[i].handler = handler
        /\ log[i].event = eventType
        /\ log[i].data = data

\* C15 (as claimed): the dispatch of any parsed message, whatever its type
\* and payload, invokes every listener of its type and every listener of the
\* wildcard channel with that message, lets no exception out and leaves the
\* connection state as it was.
C15_EveryMessageDelivered ==
    [][\A s \in Sockets, frame \in Frames :
          (frame.json /\ OnMessage(s, frame)) =>
              /\ \A e \in {frame.body.type, "message"} :
                    \A i \in 1..Len(Listeners(e)) :
                        Invoked(calls', Listeners(e)[i], e, frame.body)
              /\ ~uncaught'
              /\ isConnected' = isConnected
              /\ ws' = ws
              /\ readyState' = readyState]_vars

\* Listener handler was invoked for eventType in the last step.
Called(log, handler, eventType) ==
    \E i \in 1..Len(log) : log[i].handler = handler /\ log[i].event = eventType

\* A listener has thrown in the last step.
SomeListenerThrew(log) == \E i \in 1..Len(log) : Throws(log[i].handler)

\* C16: in every step, every listener registered for an event that the step
\* emits is invoked, whether or not a listener before it throws, and no
\* exception leaves the callback; when a listener throws, a message event
\* leaves the connection state as it was and an unexpected close event below
\* the attempt cap still schedules its retry.
C16_ThrowingListenerIsolated ==
    [][/\ ~uncaught'
       /\ \A j \in 1..Len(emitted') :
             \A i \in 1..Len(Listeners(emitted'[j].type)) :
                 Called(calls', Listeners(emitted'[j].type)[i], emitted'[j].type)
       /\ \A s \in Sockets, frame \in Frames :
             (SomeListenerThrew(calls') /\ OnMessage(s, frame)) =>
                 /\ isConnected' = isConnected
                 /\ ws' = ws
                 /\ readyState' = readyState
                 /\ reconnectAttempts' = reconnectAttempts
                 /\ timers' = timers
       /\ \A s \in Sockets, code \in CloseCodes :
             (/\ SomeListenerThrew(calls')
              /\ code # NormalClosure
              /\ reconnectAttempts < maxReconnectAttempts
              /\ OnClose(s, code)) =>
                 /\ ~isConnected'
                 /\ timers' = Append(timers, reconnectInterval)]_vars

\* An unexpected close event has invoked the faulty 'disconnected' listener
\* and then the one registered after it, and a retry is pending.
C16_Witness ==
    /\ Len(calls) = 2
    /\ calls[1].handler = "faulty"
    /\ calls[1].event = "disconnected"
    /\ calls[2].handler = "logger"
    /\ calls[2].event = "disconnected"
    /\ calls[1].data.code # NormalClosure
    /\ timers # <<>>

\* The invocations that the events emitted from the j-th on call for: for
\* every event in turn, its listeners in the order of their registration.
RECURSIVE ExpectedCalls(_, _)
ExpectedCalls(events, j) ==
    IF j > Len(events)
    THEN <<>>
    ELSE [i \in 1..Len(Listeners(events[j].type)) |->
             [handler |-> Listeners(events[j].type)[i], event |-> events[j].type]]
         \o ExpectedCalls(events, j + 1)

\* C17: the listeners of every event a step emits are invoked in the order
\* in which on() registered them, one event after the other, and all the
\* invocations made while a message is dispatched carry that message: those
\* for one frame are over before the next frame is dispatched.
C17_RegistrationAndArrivalOrder ==
    [][/\ [i \in 1..Len(calls') |->
              [handler |-> calls'[i].handler, event |-> calls'[i].event]]
            = ExpectedCalls(emitted', 1)
       /\ \A s \in Sockets, frame \in Frames :
             (calls' # <<>> /\ OnMessage(s, frame)) =>
                 \A i \in 1..Len(calls') : calls'[i].data = frame.body]_vars

\* An alarm message has been dispatched to two 'alarm' listeners, twice in
\* the order of their registration: from its own handler and from the
\* typed emit of handleMessage.
C17_Witness ==
    /\ Listeners("alarm") = <<"logger", "faulty">>
    /\ Len(calls) = 4
    /\ \A i \in 1..4 :
          /\ calls[i].handler = Listeners("alarm")[2 - (i % 2)]
          /\ calls[i].event = "alarm"
          /\ calls[i].data = [type |-> "alarm", alarm |-> "critical"]

\* A text frame that is not JSON.
Malformed == [json |-> FALSE, body |-> [type |-> Undefined, alarm |-> Undefined]]

\* C18: the message event of a frame that is not JSON lets no exception out,
\* invokes no listener, emits and sends nothing, and leaves isConnected, the
\* attempt counter, the registry, the socket and the listeners as they were.
C18_MalformedFrameDropped ==
    [][\A s \in Sockets :
          OnMessage(s, Malformed) =>
              /\ ~uncaught'
              /\ calls' = <<>>
              /\ emitted' = <<>>
              /\ sent' = <<>>
              /\ isConnected' = isConnected
              /\ reconnectAttempts' = reconnectAttempts
              /\ reconnectInterval' = reconnectInterval
              /\ timers' = timers
              /\ subscriptions' = subscriptions
              /\ ws' = ws
              /\ readyState' = readyState
              /\ messageHandlers' = messageHandlers]_vars

\* A frame that is not JSON has just been dropped by a connected client with
\* a listener on the wildcard channel.
C18_Witness ==
    /\ logged = <<Malformed>>
    /\ isConnected
    /\ Listeners("message") # <<>>
    /\ calls = <<>>

\* C19: no rolling buffer ever holds more entries than its capacity: the
\* time axis and the five series of the realtime chart at most maxDataPoints
\* (50), every series of the temperature-trend chart at most 24.
C19_BuffersWithinCapacity ==
    /\ Len(xAxisData) <= maxDataPoints
    /\ \A i \in DOMAIN seriesData : Len(seriesData[i]) <= maxDataPoints
    /\ \A n \in DOMAIN trendData : Len(trendData[n]) <= trendPoints

\* Sixty samples have been appended to the realtime chart and a measured
\* temperature to a trend series, and every buffer is full.
C19_Witness ==
    /\ realtimeChart /\ temperatureTrendChart
    /\ NextSample = 61
    /\ Len(xAxisData) = maxDataPoints
    /\ \A i \in DOMAIN seriesData : Len(seriesData[i]) = maxDataPoints
    /\ NextTemperature("CNC001") > 1
    /\ Len(trendData["CNC001"]) = trendPoints

\* The number of samples appended to the realtime chart since its set-up.
Appended == NextSample - 1

Min(a, b) == IF a <= b THEN a ELSE b

\* The last min(n, c) of the values 1..n, in their order.
LastOf(n, c) == [i \in 1..Min(n, c) |-> n - Min(n, c) + i]

\* C20: after n appends to the realtime chart, which started empty, its time
\* axis holds the timestamps of the last min(n, 50) samples in the order of
\* their arrival, and every series holds the values of those samples (0 for
\* a field the samples do not carry).
C20_LastValuesInOrder ==
    realtimeChart =>
        /\ xAxisData = [i \in 1..Min(Appended, maxDataPoints) |->
                           ToISOString(LastOf(Appended, maxDataPoints)[i])]
        /\ \A s \in DOMAIN seriesData :
              seriesData[s] =
                  IF SeriesFields[s] \in reported
                  THEN LastOf(Appended, maxDataPoints)
                  ELSE [i \in 1..Min(Appended, maxDataPoints) |-> 0]

\* Sixty samples have been appended: the temperature series holds the
\* values 11..60.
C20_Witness ==
    /\ realtimeChart
    /\ Appended = 60
    /\ Len(seriesData[1]) = 50
    /\ seriesData[1][1] = 11
    /\ seriesData[1][50] = 60
    /\ seriesData[5][50] = 0

\* C21 (as claimed): every append is stored, also when its series does not
\* exist yet: after updateTemperatureTrendChart(machineId, temperature) on a
\* chart that is set up, the chart has a series for machineId and the
\* temperature is its newest entry.
C21_UnknownSeriesCreated ==
    (temperatureTrendChart /\ lastAppend # NoAppend) =>
        /\ lastAppend.series \in DOMAIN trendData
        /\ trendData[lastAppend.series][Len(trendData[lastAppend.series])]
              = lastAppend.value

\* C30: the time axis and the five series of the realtime chart always have
\* the same length, entry i of every series is the value of the sample whose
\* timestamp is entry i of the time axis, and a field the sample does not
\* carry is stored as 0 at that position.
C30_SeriesAligned ==
    \A s \in DOMAIN seriesData :
        /\ Len(seriesData[s]) = Len(xAxisData)
        /\ \A i \in DOMAIN xAxisData :
              seriesData[s][i] = IF SeriesFields[s] \in reported
                                 THEN xAxisData[i].iso
                                 ELSE 0

\* A machine that reports two of the five fields has sent 51 samples: the
\* buffers have evicted the first one and the other three series hold zeros.
C30_Witness ==
    /\ realtimeChart
    /\ reported = {SeriesFields[1], SeriesFields[2]}
    /\ Appended = 51
    /\ Len(xAxisData) = maxDataPoints
    /\ xAxisData[1] = ToISOString(2)
    /\ seriesData[2][1] = 2
    /\ seriesData[3][maxDataPoints] = 0

\* C23: the events of the connection's lifecycle leave the registry of
\* subscriptions as it was: a close event, a retry callback (whether its
\* connect() succeeds or throws), an open event with its resubscription, and
\* the caller's connect() and disconnect().
C23_LifecycleKeepsSubscriptions ==
    [][subscriptions' # subscriptions =>
          ~(\/ Connect
            \/ TimerFire
            \/ Disconnect
            \/ \E s \in Sockets : OnOpen(s)
            \/ \E s \in Sockets, code \in CloseCodes : OnClose(s, code))]_vars

\* Two topics are registered, the connection was lost for the second time
\* and a retry is pending.
C23_Witness ==
    /\ Len(subscriptions) = 2
    /\ ~isConnected
    /\ opened
    /\ reconnectAttempts >= 2
    /\ timers # <<>>
    /\ Emitted("disconnected")

\* C26 (as claimed): isConnected is true only while the current socket
\* this.ws is open, and the close event of a socket that is no longer the
\* current one (released by disconnect() or superseded by a later connect())
\* neither changes isConnected nor schedules a retry.
C26_StaleSocketIgnored ==
    [][/\ isConnected' => (ws' # Null /\ readyState'[ws'] = "open")
       /\ \A s \in Sockets, code \in CloseCodes :
             (s # ws /\ OnClose(s, code)) =>
                 /\ isConnected' = isConnected
                 /\ timers' = timers
                 /\ reconnectAttempts' = reconnectAttempts]_vars

\* The number of invocations of listener handler for eventType in the log.
CallCount(log, handler, eventType) ==
    Cardinality({i \in 1..Len(log) :
                    log[i].handler = handler /\ log[i].event = eventType})

\* The message types that handleMessage has a case for, ping aside.
HandledTypes == PlainTypes \cup {"alarm", "error"}

\* C24 (as claimed): the dispatch of a message of a type that handleMessage
\* handles (an alarm carrying its payload included) invokes every listener
\* registered for that type exactly once.
C24_TypedListenerOnce ==
    [][\A s \in Sockets, frame \in Frames :
          (/\ frame.json
           /\ frame.body.type \in HandledTypes
           /\ frame.body.type = "alarm" => frame.body.alarm # Undefined
           /\ Listeners(frame.body.type) # <<>>
           /\ OnMessage(s, frame)) =>
              \A i \in 1..Len(Listeners(frame.body.type)) :
                  CallCount(calls', Listeners(frame.body.type)[i],
                            frame.body.type) = 1]_vars

\* C22 (as claimed): once a caller's off(eventType, handler) has returned, no
\* later emit of eventType invokes handler until it is registered again,
\* however often on() had registered it before; and off() for a handler that
\* is not registered leaves the listeners as they were.
C22_OffSilences ==
    [][/\ \A i \in 1..Len(calls') :
             <<calls'[i].event, calls'[i].handler>> \notin removed'
       /\ \A e \in ListenerEvents, h \in ListenerKinds :
             (~Contains(Listeners(e), h) /\ Off(e, h)) =>
                 messageHandlers' = messageHandlers]_vars

\* The number of events of eventType among those a step has emitted.
Emissions(events, eventType) ==
    Cardinality({j \in 1..Len(events) : events[j].type = eventType})

\* C27 (as claimed): the listeners of 'connected' are invoked by open events
\* only, those of 'disconnected' by close events only and those of
\* 'max_reconnect_attempts_reached' at the attempt cap only, never by a
\* message from the server; and a message, whatever its type, is emitted on
\* the 'message' channel exactly once.
C27_ReservedNames ==
    [][/\ \A i \in 1..Len(calls') :
             /\ calls'[i].event = "connected" => \E s \in Sockets : OnOpen(s)
             /\ calls'[i].event = "disconnected" =>
                    \E s \in Sockets, code \in CloseCodes : OnClose(s, code)
             /\ calls'[i].event = "max_reconnect_attempts_reached" =>
                    reconnectAttempts >= maxReconnectAttempts
       /\ \A s \in Sockets, frame \in ListenerFrames :
             (emitted' # <<>> /\ OnMessage(s, frame)) =>
                 Emissions(emitted', "message") = 1]_vars

\* The number of times x occurs in seq.
Occurrences(seq, x) == Cardinality({i \in 1..Len(seq) : seq[i] = x})

\* C28 (as claimed): when an event of the connection is emitted, every
\* listener of it that does not remove itself is invoked once for each of its
\* registrations, also when another listener of the event calls off() on
\* itself during the dispatch.
C28_RemovalSkipsNobody ==
    [][\A j \in 1..Len(emitted') :
          emitted'[j].type = "connected" =>
              \A i \in 1..Len(Listeners("connected")) :
                  ~RemovesItself(Listeners("connected")[i]) =>
                      CallCount(calls', Listeners("connected")[i], "connected")
                          = Occurrences(Listeners("connected"),
                                        Listeners("connected")[i])]_vars

\* C25 (as claimed): a machine_data message that reaches the application's
\* listener appends exactly one sample to the realtime chart: the time axis
\* grows by one entry, up to maxDataPoints, and its newest entry is the
\* timestamp of the message's sample.
C25_OneSamplePerMessage ==
    [][\A s \in Sockets, m \in Machines :
          (/\ realtimeChart
           /\ Contains(Listeners("machine_data"), "handleMachineDataUpdate")
           /\ OnMessage(s, MachineDataFrame(m, NextSample))) =>
              /\ Len(xAxisData') = Min(Len(xAxisData) + 1, maxDataPoints)
              /\ xAxisData'[Len(xAxisData')] = ToISOString(NextSample)]_vars

\* The machines for which the last step has sent a subscribe frame.
Subscribed(frames) ==
    {frames[i].machine_id :
        i \in {j \in 1..Len(frames) : frames[j].type = "subscribe"}}

\* C29 (as claimed): every machine of the application's map is subscribed
\* once both the list is loaded and the socket is open, whichever comes last:
\* the open event of the current socket sends a subscribe frame for every
\* machine loaded so far, and a list that is loaded while the client is
\* connected has a subscribe frame sent for each of its machines.
C29_LoadedMachinesSubscribed ==
    [][/\ \A s \in Sockets :
             (ws = s /\ machines # <<>> /\ OnOpen(s)) =>
                 Range(machines) \subseteq Subscribed(sent')
       /\ \A list \in MachineLists :
             (Connected /\ LoadMachines(list)) =>
                 Range(machines') \subseteq
                     Subscribed(sent') \cup Range(subscriptions)]_vars
====
